---- MODULE Spec2Model ----
(***************************************************************************)
(* A state-machine model of src/src/minifft.c: search_minifft (the         *)
(* interbinned, optionally harmonic-summed peak search of a short FFT),    *)
(* padfftlen (the choice of the padded transform length) and               *)
(* percolate_pows_and_freqs (the single-element insertion step of the      *)
(* candidate list).                                                        *)
(*                                                                         *)
(* C arrays are functions over 0..len-1, so every index is the index of    *)
(* the C code.  Floating point values are integers: the inputs are chosen  *)
(* so that every product, sum and square root the code takes is exact.     *)
(* A frequency is held in tenths of a Fourier bin (0.5 * ii is 5 * ii).    *)
(***************************************************************************)
EXTENDS Integers, Sequences, FiniteSets, TLC

VARIABLES
  caller,          \* which caller drives the module: "search", "idem", "pad"
  pc,              \* position inside search_minifft
  minifft, numminifft, norm, harmsum, numcands,    \* arguments
  highpows, highfreqs,                             \* the caller's vectors
  firsttime, old_numminifft, kernel,               \* static storage
  nmini2, nmini4, numspread, kern_half_width, numkern,
  sqrtnorm, nyquist, minpow, numtosearch,
  ii, jj, kk, offset,
  spread, fullpows, sumpows,
  heap,            \* allocation status of every buffer the routine owns
  called, rebuilt, \* history: a call has returned; this call built the kernel
  memo,            \* arguments and results of an earlier call ("idem" caller)
  padArgs, padRet  \* a direct call of padfftlen ("pad" caller)

vars == << caller, pc, minifft, numminifft, norm, harmsum, numcands,
           highpows, highfreqs, firsttime, old_numminifft, kernel,
           nmini2, nmini4, numspread, kern_half_width, numkern,
           sqrtnorm, nyquist, minpow, numtosearch, ii, jj, kk, offset,
           spread, fullpows, sumpows, heap, called, rebuilt,
           memo, padArgs, padRet >>

(***************************************************************************)
(* Bounds of the model.                                                    *)
(***************************************************************************)
MaxHarm == 3
MaxCands == 3
MaxPadLog2 == 19
MaxBetween == 25

Min(a, b) == IF a < b THEN a ELSE b

RECURSIVE Pow2(_)
Pow2(k) == IF k = 0 THEN 1 ELSE 2 * Pow2(k - 1)

RECURSIVE SumOver(_, _)
SumOver(S, f) ==
  IF S = {} THEN 0
  ELSE LET x == CHOOSE y \in S : TRUE IN f[x] + SumOver(S \ {x}, f)

Cx(re, im) == [r |-> re, i |-> im]
CZero == Cx(0, 0)

(***************************************************************************)
(* padfftlen, lines 129-163.                                               *)
(***************************************************************************)
\* r_resp_halfwidth is defined outside minifft.c; 16 bins is taken for
\* LOWACC.  The value matters only for inputs of more than 128 points.
r_resp_halfwidth(accuracy) == 16

PadTable == << 288, 540, 1080, 2100, 4200, 8232, 16464, 32805, 65610,
               131220, 262440, 525000, 1050000 >>

RECURSIVE TableLookupStrict(_, _)
TableLookupStrict(newlen, k) ==
  IF k > Len(PadTable) THEN ((newlen + 1000) \div 1000) * 1000
  ELSE IF newlen < PadTable[k] THEN PadTable[k]
  ELSE TableLookupStrict(newlen, k + 1)

RECURSIVE TableLookup(_, _)
TableLookup(newlen, k) ==
  IF k > Len(PadTable) THEN ((newlen + 1000) \div 1000) * 1000
  ELSE IF newlen <= PadTable[k] THEN PadTable[k]
  ELSE TableLookup(newlen, k + 1)

PadLen(minifftlen) == Min(minifftlen \div 8, r_resp_halfwidth("LOWACC"))

PadNewLen(minifftlen, numbetween) == (minifftlen + PadLen(minifftlen)) * numbetween

padfftlen(minifftlen, numbetween) ==
  LET newlen == PadNewLen(minifftlen, numbetween) IN
  [ padlen |-> PadLen(minifftlen),
    len    |-> IF newlen <= 144 THEN newlen ELSE TableLookup(newlen, 1) ]

(***************************************************************************)
(* The collaborators of search_minifft that live outside minifft.c: the    *)
(* square root, the spreading of the input over every second slot, the     *)
(* response kernel and its placement, and the correlation.  The kernel is  *)
(* kept as placed (the transform of line 52 and the transforms inside the  *)
(* correlation cancel), and the correlation is the circular correlation    *)
(* it computes.                                                            *)
(***************************************************************************)
sqrt(x) == CHOOSE s \in 0..x : s * s <= x /\ (s + 1) * (s + 1) > x

POWER(c) == c.r * c.r + c.i * c.i

spread_no_pad(data, numdata, numresult, numbetween) ==
  [k \in 0..(numresult - 1) |->
     IF k % numbetween = 0 /\ k \div numbetween < numdata
     THEN data[k \div numbetween] ELSE CZero]

\* The response at an offset of d half bins from the peak: 1 at the peak,
\* 0 at the other whole bins, alternating in sign in between.
RespTap(d) ==
  LET a == IF d < 0 THEN -d ELSE d IN
  IF a = 0 THEN 1
  ELSE IF a % 2 = 0 THEN 0
  ELSE IF ((a - 1) \div 2) % 2 = 0 THEN 1 ELSE -1

gen_r_response(numbetween, nkern) ==
  [k \in 0..(nkern - 1) |-> Cx(RespTap(k - nkern \div 2), 0)]

place_complex_kernel(kern, nkern, numresult) ==
  LET halfwidth == nkern \div 2 IN
  [k \in 0..(numresult - 1) |->
     IF k < halfwidth THEN kern[k + halfwidth]
     ELSE IF k >= numresult - halfwidth THEN kern[k - (numresult - halfwidth)]
     ELSE CZero]

complex_corr_conv(data, kern, numdata) ==
  LET taps == {j \in DOMAIN kern : j < numdata /\ kern[j] # CZero}
      lag(j) == IF 2 * j < numdata THEN j ELSE j - numdata
      re(k) == [j \in taps |-> data[(k + lag(j) + numdata) % numdata].r * kern[j].r]
      im(k) == [j \in taps |-> data[(k + lag(j) + numdata) % numdata].i * kern[j].r]
  IN [k \in 0..(numdata - 1) |-> Cx(SumOver(taps, re(k)), SumOver(taps, im(k)))]

\* The kernel that lines 48-52 build for an input of n points.
KernelFor(n) ==
  LET pad == padfftlen(n, 2) IN
  place_complex_kernel(gen_r_response(2, 4 * pad.padlen), 4 * pad.padlen, pad.len)

(***************************************************************************)
(* The heap: the status of each pointer of search_minifft, and what went   *)
(* wrong with it so far.                                                   *)
(***************************************************************************)
Locals == {"kern", "spread", "fullpows", "sumpows"}
BufNames == Locals \cup {"kernel"}

HeapInit ==
  [ st |-> [b \in BufNames |-> "none"],
    leaked |-> FALSE, badfree |-> FALSE, uaf |-> FALSE ]

Alloc(h, b) ==
  [h EXCEPT !.st[b] = "live", !.leaked = @ \/ h.st[b] = "live"]

Free(h, b) ==
  [h EXCEPT !.st[b] = "freed", !.badfree = @ \/ h.st[b] # "live"]

Use(h, b) ==
  [h EXCEPT !.uaf = @ \/ h.st[b] # "live"]

\* The locals go out of scope at the return: one still live is lost.
Leave(h) ==
  [h EXCEPT !.st = [b \in BufNames |-> IF b \in Locals THEN "none" ELSE h.st[b]],
            !.leaked = @ \/ \E b \in Locals : h.st[b] = "live"]

(***************************************************************************)
(* percolate_pows_and_freqs, lines 166-184.                                *)
(***************************************************************************)
Swap(f, a, b) == [f EXCEPT ![a] = f[b], ![b] = f[a]]

RECURSIVE PercolateFrom(_, _, _)
PercolateFrom(hp, hf, k) ==
  IF k >= 0 /\ hp[k] < hp[k + 1]
  THEN PercolateFrom(Swap(hp, k, k + 1), Swap(hf, k, k + 1), k - 1)
  ELSE [pows |-> hp, freqs |-> hf]

percolate_short(hp, hf, nc) ==
  LET r == PercolateFrom(hp, hf, nc - 3) IN
  [pows |-> r.pows, freqs |-> r.freqs, low |-> r.pows[nc - 1]]

percolate_pows_and_freqs(hp, hf, nc) ==
  LET r == PercolateFrom(hp, hf, nc - 2) IN
  [pows |-> r.pows, freqs |-> r.freqs, low |-> r.pows[nc - 1]]

(***************************************************************************)
(* The arguments the callers pass.  Lengths below 8 get no padding         *)
(* (padlen = numminifft / 8 = 0); 3 is not a power of two, and norm 0,     *)
(* harmsum 0 and numcands 0 are outside the documented ranges.             *)
(***************************************************************************)
Lengths == {1, 2, 3, 4, 8}
Norms == {0, 1, 4}
Harms == 0..MaxHarm
Cands == 0..MaxCands
PeakVals == {Cx(1, 0), Cx(1, 1)}
NyquistVals == {0, 1}

\* A spectrum of n points: bin 0 packs the DC value and the Nyquist value,
\* and at most one other bin holds a signal.
Spectra(n) ==
  LET flat(nyq) == [k \in 0..(n - 1) |-> IF k = 0 THEN Cx(2, nyq) ELSE CZero]
  IN { flat(nyq) : nyq \in NyquistVals }
     \cup { [flat(nyq) EXCEPT ![p] = v] :
              nyq \in NyquistVals, p \in 1..(n - 1), v \in PeakVals }

IsPow2(n) == \E k \in 0..n : Pow2(k) = n

ValidArgs(n, nrm, hs, nc) == IsPow2(n) /\ nrm > 0 /\ hs >= 1 /\ nc >= 1

\* The calls of the "idem" caller: two lengths with different kernels.
IdemLengths == {8, 16}

NoArgs == [n |-> 0]

(***************************************************************************)
(* The initial state: nothing called yet, the statics as initialised at    *)
(* line 34, no buffer allocated.                                           *)
(***************************************************************************)
IdleLocals ==
  /\ nmini2 = 0 /\ nmini4 = 0 /\ numspread = 0 /\ kern_half_width = 0
  /\ numkern = 0 /\ sqrtnorm = 0 /\ nyquist = 0 /\ minpow = 0
  /\ numtosearch = 0 /\ ii = 0 /\ jj = 0 /\ kk = 0 /\ offset = 0
  /\ spread = << >> /\ fullpows = << >> /\ sumpows = << >>

InitCommon ==
  /\ pc = "idle"
  /\ minifft = << >> /\ numminifft = 0 /\ norm = 0 /\ harmsum = 0 /\ numcands = 0
  /\ highpows = << >> /\ highfreqs = << >>
  /\ firsttime = 1 /\ old_numminifft = 0 /\ kernel = << >>
  /\ IdleLocals
  /\ heap = HeapInit
  /\ called = FALSE /\ rebuilt = FALSE
  /\ memo = NoArgs
  /\ padArgs = << >> /\ padRet = << >>

Init == InitCommon /\ caller = "search"

InitIdem == InitCommon /\ caller = "idem"

InitPad == InitCommon /\ caller = "pad"

(***************************************************************************)
(* search_minifft, lines 10-126, one action per block of the routine and   *)
(* one per iteration of its summing and scanning loops.                    *)
(***************************************************************************)
LocalsVars == << nmini2, nmini4, numspread, kern_half_width, numkern,
                 sqrtnorm, nyquist, minpow, numtosearch, ii, jj, kk, offset,
                 spread, fullpows, sumpows >>
ArgVars == << minifft, numminifft, norm, harmsum, numcands >>
StaticVars == << firsttime, old_numminifft, kernel >>
PadVars == << padArgs, padRet >>

\* Lines 29-42: entry.  The vectors are the caller's, not yet written.
Enter(m, n, nrm, hs, nc) ==
  /\ pc = "idle"
  /\ pc' = "prep"
  /\ minifft' = m /\ numminifft' = n /\ norm' = nrm
  /\ harmsum' = hs /\ numcands' = nc
  /\ highpows' = << >> /\ highfreqs' = << >>
  /\ nmini2' = n * 2
  /\ nmini4' = n * 4
  /\ numspread' = padfftlen(n, 2).len
  /\ kern_half_width' = padfftlen(n, 2).padlen
  /\ rebuilt' = FALSE
  /\ UNCHANGED << caller, StaticVars, called, numkern, sqrtnorm, nyquist, minpow,
                  numtosearch, ii, jj, kk, offset, spread, fullpows, sumpows,
                  heap, memo, PadVars >>

Call ==
  /\ caller = "search"
  /\ pc = "idle"
  /\ \E n \in Lengths, nrm \in Norms, hs \in Harms, nc \in Cands :
       \E m \in Spectra(n) : Enter(m, n, nrm, hs, nc)

\* Line 46: is the kernel to be built?
NeedKernelFirstOnly(ft, old, n) == ft = 1

NeedKernelGrowOnly(ft, old, n) == ft = 1 \/ old < n

NeedKernel(ft, old, n) == ft = 1 \/ old # n

\* Line 47: the old kernel is released unless there is none.
FreeOldKernelNever(h, ft) == h

FreeOldKernel(h, ft) == IF ft = 0 THEN Free(h, "kernel") ELSE h

\* Lines 46-56.
PrepKernel ==
  /\ pc = "prep"
  /\ pc' = "spread"
  /\ IF NeedKernel(firsttime, old_numminifft, numminifft)
     THEN /\ numkern' = 4 * kern_half_width
          /\ kernel' = place_complex_kernel(
                         gen_r_response(2, 4 * kern_half_width),
                         4 * kern_half_width, numspread)
          /\ heap' = Free(Alloc(Alloc(FreeOldKernel(heap, firsttime), "kern"),
                                "kernel"), "kern")
          /\ firsttime' = 0
          /\ old_numminifft' = numminifft
          /\ rebuilt' = TRUE
     ELSE UNCHANGED << numkern, kernel, heap, firsttime, old_numminifft, rebuilt >>
  /\ UNCHANGED << caller, ArgVars, highpows, highfreqs, nmini2, nmini4,
                  numspread, kern_half_width, sqrtnorm, nyquist, minpow,
                  numtosearch, ii, jj, kk, offset, spread, fullpows, sumpows,
                  called, memo, PadVars >>

\* Lines 66-70: the value of ii when the scaling loop ends, which is the
\* slot the Nyquist value is stored in.
NyquistSlot(n2) == IF n2 > 2 THEN n2 ELSE 2

\* A store through an index outside the vector is undefined: the run goes
\* on without it, or it ends.
StoreOutcomes(inside) == IF inside THEN {"stored"} ELSE {"lost", "crash"}

\* Lines 60-71.
Spread ==
  /\ pc = "spread"
  /\ LET s0 == spread_no_pad(minifft, numminifft, numspread, 2)
         sq == sqrt(norm)
         nyq == s0[0].i * sq
         s1 == [k \in DOMAIN s0 |->
                  IF k = 0 THEN Cx(1, 0)
                  ELSE IF k % 2 = 0 /\ k < nmini2
                       THEN Cx(s0[k].r * sq, s0[k].i * sq)
                       ELSE s0[k]]
         slot == NyquistSlot(nmini2)
     IN /\ sqrtnorm' = sq
        /\ nyquist' = nyq
        /\ ii' = slot
        /\ heap' = Alloc(heap, "spread")
        /\ \E o \in StoreOutcomes(slot < numspread) :
             /\ spread' = IF o = "stored" THEN [s1 EXCEPT ![slot] = Cx(nyq, 0)]
                          ELSE s1
             /\ pc' = IF o = "crash" THEN "crashed" ELSE "corr"
  /\ UNCHANGED << caller, ArgVars, highpows, highfreqs, StaticVars, nmini2,
                  nmini4, numspread, kern_half_width, numkern, minpow,
                  numtosearch, jj, kk, offset, fullpows, sumpows,
                  called, rebuilt, memo, PadVars >>

\* Lines 72-73.
Correlate ==
  /\ pc = "corr"
  /\ pc' = "powers"
  /\ spread' = complex_corr_conv(spread, kernel, numspread)
  /\ heap' = Use(Use(heap, "spread"), "kernel")
  /\ UNCHANGED << caller, ArgVars, highpows, highfreqs, StaticVars, nmini2,
                  nmini4, numspread, kern_half_width, numkern, sqrtnorm,
                  nyquist, minpow, numtosearch, ii, jj, kk, offset, fullpows,
                  sumpows, called, rebuilt, memo, PadVars >>

\* Lines 94-98: the slot a harmonic is added into, the slot it is read
\* from, and the bound of the loop over jj.
HarmTarget(h, j, k) == j * h + k - h \div 2

HarmSourceMultiple(h, j) == j * h

HarmSource(h, j) == j

HarmLimitInclusive(n4, h) == n4 \div h + 1

HarmLimit(n4, h) == n4 \div h

\* The first harmonic order from h on whose loop over jj is not empty.
RECURSIVE NextOrder(_, _, _)
NextOrder(h, n4, hs) ==
  IF h > hs THEN 0
  ELSE IF 1 < HarmLimit(n4, h) THEN h
  ELSE NextOrder(h + 1, n4, hs)

\* Lines 77-93 and 102-109: the powers to search, or the arrays to sum.
Powers ==
  /\ pc = "powers"
  /\ IF harmsum > 1
     THEN /\ fullpows' = [k \in 0..(nmini4 - 1) |->
                            IF k = 0 THEN 1
                            ELSE IF k = nmini2 THEN nyquist * nyquist
                            ELSE IF k < nmini2 THEN POWER(spread[k])
                            ELSE POWER(spread[nmini4 - k])]
          /\ sumpows' = [k \in 0..(nmini4 - 1) |-> IF k = 0 THEN 1 ELSE 0]
          /\ heap' = Alloc(Alloc(Use(heap, "spread"), "fullpows"), "sumpows")
          /\ ii' = NextOrder(1, nmini4, harmsum)
          /\ offset' = NextOrder(1, nmini4, harmsum) \div 2
          /\ jj' = 1 /\ kk' = 0
          /\ pc' = IF NextOrder(1, nmini4, harmsum) = 0 THEN "summed" ELSE "sum"
          /\ UNCHANGED numtosearch
     ELSE /\ sumpows' = [k \in 0..nmini2 |->
                           IF k = 0 THEN 1
                           ELSE IF k = nmini2 THEN nyquist * nyquist
                           ELSE POWER(spread[k])]
          /\ heap' = Alloc(Use(heap, "spread"), "sumpows")
          /\ numtosearch' = nmini2 + 1
          /\ pc' = "search"
          /\ UNCHANGED << fullpows, ii, jj, kk, offset >>
  /\ UNCHANGED << caller, ArgVars, highpows, highfreqs, StaticVars, nmini2,
                  nmini4, numspread, kern_half_width, numkern, sqrtnorm,
                  nyquist, minpow, spread, called, rebuilt, memo,
                  PadVars >>

\* Line 98, once, and the step of the loops of lines 94-97 to the next one.
SumStep ==
  /\ pc = "sum"
  /\ sumpows' = [sumpows EXCEPT ![HarmTarget(ii, jj, kk)] =
                   @ + fullpows[HarmSource(ii, jj)]]
  /\ heap' = Use(Use(heap, "fullpows"), "sumpows")
  /\ IF kk + 1 < ii
     THEN /\ kk' = kk + 1
          /\ UNCHANGED << ii, jj, offset, pc >>
     ELSE IF jj + 1 < HarmLimit(nmini4, ii)
     THEN /\ jj' = jj + 1 /\ kk' = 0
          /\ UNCHANGED << ii, offset, pc >>
     ELSE LET h == NextOrder(ii + 1, nmini4, harmsum) IN
          /\ ii' = h /\ offset' = h \div 2 /\ jj' = 1 /\ kk' = 0
          /\ pc' = IF h = 0 THEN "summed" ELSE "sum"
  /\ UNCHANGED << caller, ArgVars, highpows, highfreqs, StaticVars, nmini2,
                  nmini4, numspread, kern_half_width, numkern, sqrtnorm,
                  nyquist, minpow, numtosearch, spread, fullpows,
                  called, rebuilt, memo, PadVars >>

\* Lines 100-101.
SumDone ==
  /\ pc = "summed"
  /\ pc' = "search"
  /\ heap' = Free(heap, "fullpows")
  /\ numtosearch' = nmini4
  /\ UNCHANGED << caller, ArgVars, highpows, highfreqs, StaticVars, nmini2,
                  nmini4, numspread, kern_half_width, numkern, sqrtnorm,
                  nyquist, minpow, ii, jj, kk, offset, spread, fullpows,
                  sumpows, called, rebuilt, memo, PadVars >>

\* Line 117: the first bin searched.
FirstBin == 1

\* Lines 113-116, and the start of the loop of line 117.
ScanInit ==
  /\ pc = "search"
  /\ pc' = "scan"
  /\ highpows' = [k \in 0..(numcands - 1) |-> 0]
  /\ highfreqs' = [k \in 0..(numcands - 1) |-> 0]
  /\ ii' = FirstBin
  /\ UNCHANGED << caller, ArgVars, StaticVars, nmini2, nmini4, numspread,
                  kern_half_width, numkern, sqrtnorm, nyquist, minpow,
                  numtosearch, jj, kk, offset, spread, fullpows, sumpows,
                  heap, called, rebuilt, memo, PadVars >>

\* Line 118: does the bin enter the list?
QualifiesOrEqual(p, low) == p >= low

Qualifies(p, low) == p > low

\* Line 120: the frequency of bin b, in tenths of a bin.
BinFreq(b) == 5 * b

\* Lines 117-123, one bin.  With numcands = 0 the stores of lines 119-120
\* go to slot -1, outside the vectors.
ScanStep ==
  /\ pc = "scan"
  /\ ii < numtosearch
  /\ ii' = ii + 1
  /\ heap' = Use(heap, "sumpows")
  /\ IF Qualifies(sumpows[ii], minpow)
     THEN \E o \in StoreOutcomes(numcands >= 1) :
            IF o = "stored"
            THEN LET r == percolate_pows_and_freqs(
                            [highpows EXCEPT ![numcands - 1] = sumpows[ii]],
                            [highfreqs EXCEPT ![numcands - 1] = BinFreq(ii)],
                            numcands)
                 IN /\ highpows' = r.pows
                    /\ highfreqs' = r.freqs
                    /\ minpow' = r.low
                    /\ pc' = "scan"
            ELSE /\ minpow' = sumpows[ii]
                 /\ pc' = IF o = "crash" THEN "crashed" ELSE "scan"
                 /\ UNCHANGED << highpows, highfreqs >>
     ELSE UNCHANGED << highpows, highfreqs, minpow, pc >>
  /\ UNCHANGED << caller, ArgVars, StaticVars, nmini2, nmini4, numspread,
                  kern_half_width, numkern, sqrtnorm, nyquist, numtosearch,
                  jj, kk, offset, spread, fullpows, sumpows,
                  called, rebuilt, memo, PadVars >>

\* Lines 124-126: the loop of line 117 has ended.
Cleanup ==
  /\ pc = "scan"
  /\ ~(ii < numtosearch)
  /\ pc' = "done"
  /\ heap' = Free(Free(heap, "sumpows"), "spread")
  /\ UNCHANGED << caller, ArgVars, highpows, highfreqs, StaticVars, nmini2,
                  nmini4, numspread, kern_half_width, numkern, sqrtnorm,
                  nyquist, minpow, numtosearch, ii, jj, kk, offset, spread,
                  fullpows, sumpows, called, rebuilt, memo, PadVars >>

\* The caller takes the vectors; the automatic variables are gone.
Forget ==
  /\ pc' = "idle"
  /\ minifft' = << >> /\ numminifft' = 0 /\ norm' = 0
  /\ harmsum' = 0 /\ numcands' = 0
  /\ highpows' = << >> /\ highfreqs' = << >>
  /\ nmini2' = 0 /\ nmini4' = 0 /\ numspread' = 0 /\ kern_half_width' = 0
  /\ numkern' = 0 /\ sqrtnorm' = 0 /\ nyquist' = 0 /\ minpow' = 0
  /\ numtosearch' = 0 /\ ii' = 0 /\ jj' = 0 /\ kk' = 0 /\ offset' = 0
  /\ spread' = << >> /\ fullpows' = << >> /\ sumpows' = << >>
  /\ heap' = Leave(heap)
  /\ called' = TRUE
  /\ rebuilt' = FALSE
  /\ UNCHANGED << caller, StaticVars, PadVars >>

Return ==
  /\ pc = "done"
  /\ Forget
  /\ UNCHANGED memo

(***************************************************************************)
(* The "idem" caller repeats calls and keeps the results of one of them.   *)
(***************************************************************************)
IdemCall ==
  /\ caller = "idem"
  /\ pc = "idle"
  /\ \E n \in IdemLengths, hs \in {1, 2} :
       \E m \in {s \in Spectra(n) :
                   s[0].i = 1 /\ \A k \in 1..(n - 1) : s[k].i = 0} :
         Enter(m, n, 4, hs, 2)

ThisCall ==
  [ n |-> numminifft, m |-> minifft, nrm |-> norm, hs |-> harmsum,
    nc |-> numcands, pows |-> highpows, freqs |-> highfreqs ]

ReturnKeep ==
  /\ pc = "done"
  /\ caller = "idem"
  /\ memo = NoArgs
  /\ memo' = ThisCall
  /\ Forget

(***************************************************************************)
(* The "pad" caller calls padfftlen alone.                                 *)
(***************************************************************************)
PadCall ==
  /\ caller = "pad"
  /\ pc = "idle"
  /\ \E k \in 0..MaxPadLog2, nb \in 1..MaxBetween :
       /\ padArgs' = [minifftlen |-> Pow2(k), numbetween |-> nb]
       /\ padRet' = padfftlen(Pow2(k), nb)
  /\ UNCHANGED << caller, pc, ArgVars, highpows, highfreqs, StaticVars,
                  LocalsVars, heap, called, rebuilt, memo >>

Search ==
  \/ PrepKernel \/ Spread \/ Correlate \/ Powers \/ SumStep \/ SumDone
  \/ ScanInit \/ ScanStep \/ Cleanup \/ Return

Next == Call \/ Search

NextIdem == IdemCall \/ Search \/ ReturnKeep

NextPad == PadCall

Spec == Init /\ [][Next]_vars

SpecIdem == InitIdem /\ [][NextIdem]_vars

SpecPad == InitPad /\ [][NextPad]_vars

(***************************************************************************)
(* The properties checked.                                                 *)
(***************************************************************************)
Bins == 1..(numtosearch - 1)

\* C1: during the scan (after the vectors are zeroed and after every
\* percolate step) and at the return, for numcands >= 1, highpows is sorted
\* non-increasing and the threshold minpow is its last entry.
C1_SortedWithThreshold ==
  (pc \in {"scan", "done"} /\ numcands >= 1) =>
    /\ \A k \in 0..(numcands - 2) : highpows[k] >= highpows[k + 1]
    /\ minpow = highpows[numcands - 1]

C1_Witness ==
  /\ pc = "scan" /\ numcands = 3 /\ ii < numtosearch
  /\ highpows[0] > highpows[1] /\ highpows[1] > highpows[2] /\ highpows[2] > 0
  /\ highfreqs[0] > highfreqs[1]

\* C2: at the return, for numcands >= 1, slot k of highpows holds the
\* (k+1)-th highest of the positive powers of bins 1..numtosearch-1, every
\* non-zero slot holds the frequency 0.5 * b of a bin b >= 1 with that power,
\* no bin is listed twice, and the slots beyond the positive bins are (0, 0).
C2_TopCandidates ==
  (pc = "done" /\ numcands >= 1) =>
    LET positive == {b \in Bins : sumpows[b] > 0} IN
    \A k \in 0..(numcands - 1) :
      IF k < Cardinality(positive)
      THEN /\ highpows[k] > 0
           /\ Cardinality({b \in Bins : sumpows[b] > highpows[k]}) <= k
           /\ Cardinality({b \in Bins : sumpows[b] >= highpows[k]}) > k
           /\ \E b \in Bins : highfreqs[k] = 5 * b /\ sumpows[b] = highpows[k]
           /\ \A l \in 0..(numcands - 1) :
                (l # k /\ highpows[l] > 0) => highfreqs[l] # highfreqs[k]
      ELSE highpows[k] = 0 /\ highfreqs[k] = 0

C2_Witness ==
  /\ pc = "done" /\ numcands = 3 /\ harmsum > 1
  /\ Cardinality({b \in Bins : sumpows[b] > 0}) > 3
  /\ highpows[0] > highpows[2]
  /\ \E b \in Bins : sumpows[b] = highpows[2] /\ highfreqs[2] # 5 * b

\* C3: the kernel the correlation uses is the one built for this call's
\* numminifft; PrepKernel builds the kernel exactly when no call was made
\* before or old_numminifft differs from numminifft; and at the return
\* old_numminifft is this call's numminifft.
C3_KernelCache ==
  /\ [](pc = "corr" => kernel = KernelFor(numminifft))
  /\ [](pc = "done" => old_numminifft = numminifft)
  /\ [][pc = "prep" =>
          (rebuilt' <=> (~called \/ old_numminifft # numminifft))]_vars

C3_Witness ==
  pc = "corr" /\ called /\ ~rebuilt /\ numminifft = 8

\* C4: a call whose arguments break a precondition has allocated nothing,
\* has not touched the kernel cache and has written no output slot.
C4_InvalidRejected ==
  (pc # "idle" /\ ~ValidArgs(numminifft, norm, harmsum, numcands)) =>
    /\ \A b \in Locals : heap.st[b] = "none"
    /\ ~rebuilt
    /\ highpows = << >> /\ highfreqs = << >>

\* C5: a call with the arguments of an earlier call returns what that call
\* returned, whatever calls came before and between them.
C5_SameArgsSameResult ==
  (pc = "done" /\ memo # NoArgs /\ memo.n = numminifft /\ memo.m = minifft
     /\ memo.nrm = norm /\ memo.hs = harmsum /\ memo.nc = numcands) =>
    (highpows = memo.pows /\ highfreqs = memo.freqs)

C5_Witness ==
  /\ pc = "done" /\ memo # NoArgs /\ memo.n = numminifft /\ memo.m = minifft
  /\ memo.hs = harmsum /\ ~rebuilt /\ numminifft = 8 /\ highpows[1] > 0

TableEntries == {PadTable[k] : k \in 1..Len(PadTable)}

PadProduct == (padArgs.minifftlen + padRet.padlen) * padArgs.numbetween

\* C6 as stated: padfftlen returns the smallest table entry >= the product
\* (length + padding) * oversampling, and beyond 1050000 the smallest
\* multiple of 1000 >= the product.
C6_SmallestTableEntry ==
  padRet # << >> =>
    IF PadProduct <= 1050000
    THEN /\ padRet.len \in TableEntries
         /\ padRet.len >= PadProduct
         /\ \A t \in TableEntries : t >= PadProduct => padRet.len <= t
    ELSE /\ padRet.len % 1000 = 0
         /\ padRet.len >= PadProduct
         /\ padRet.len - 1000 < PadProduct

\* C6 amended: padfftlen returns the product itself when it is at most 144,
\* the smallest table entry >= the product when it is above 144 and at most
\* 1050000, and beyond that the smallest multiple of 1000 strictly greater
\* than the product.
C6_PadLength ==
  padRet # << >> =>
    IF PadProduct <= 144
    THEN padRet.len = PadProduct
    ELSE IF PadProduct <= 1050000
    THEN /\ padRet.len \in TableEntries
         /\ padRet.len >= PadProduct
         /\ \A t \in TableEntries : t >= PadProduct => padRet.len <= t
    ELSE /\ padRet.len % 1000 = 0
         /\ padRet.len > PadProduct
         /\ padRet.len - 1000 <= PadProduct

C6_Witness ==
  /\ padRet # << >>
  /\ PadProduct > 1050000 /\ PadProduct % 1000 = 0
  /\ padRet.len = PadProduct + 1000

\* The (h, jh, k) with 1 <= h <= hs, 1 <= jh <= n4 and 0 <= k < h.
HarmTriples(hs, n4) ==
  {t \in (1..hs) \X (1..n4) \X (0..(hs - 1)) : t[3] < t[1]}

\* C7 as stated: after the summation, for p >= 1, sumpows[p] is the sum of
\* fullpows[jh*h] over the (h, jh, k) with 1 <= h <= harmsum, jh >= 1,
\* jh*h < 4*numminifft, 0 <= k < h and jh*h + k - floor(h/2) = p.
C7_SumOfMultiples ==
  (pc = "summed" /\ ValidArgs(numminifft, norm, harmsum, numcands)) =>
    LET T == {t \in HarmTriples(harmsum, nmini4) : t[2] * t[1] < nmini4}
    IN \A p \in 1..(nmini4 - 1) :
         LET S == {t \in T : t[2] * t[1] + t[3] - t[1] \div 2 = p} IN
         sumpows[p] = SumOver(S, [t \in S |-> fullpows[t[2] * t[1]]])

\* C7 amended: after the summation, for p >= 1, sumpows[p] is the sum of
\* fullpows[jh] over the (h, jh, k) with 1 <= h <= harmsum,
\* 1 <= jh < floor(4*numminifft / h), 0 <= k < h and
\* jh*h + k - floor(h/2) = p.
C7_SumOfGroups ==
  (pc = "summed") =>
    LET T == {t \in HarmTriples(harmsum, nmini4) : t[2] < nmini4 \div t[1]}
    IN \A p \in 1..(nmini4 - 1) :
         LET S == {t \in T : t[2] * t[1] + t[3] - t[1] \div 2 = p} IN
         sumpows[p] = SumOver(S, [t \in S |-> fullpows[t[2]]])

C7_Witness ==
  /\ pc = "summed" /\ harmsum = 3 /\ numminifft = 8
  /\ \E p \in 1..(nmini4 - 1) : sumpows[p] > fullpows[p] /\ fullpows[p] > 0
  /\ \E p \in 1..(nmini4 - 1) : fullpows[p] = 0 /\ sumpows[p] > 0

\* C8: every slot the summation adds into and every slot it reads lies in
\* 1..4*numminifft-1, and bin 0 of the summed array stays 1.
C8_SumIndicesInRange ==
  /\ pc = "sum" =>
       /\ HarmTarget(ii, jj, kk) \in 1..(nmini4 - 1)
       /\ HarmSource(ii, jj) \in 1..(nmini4 - 1)
       /\ offset = ii \div 2
  /\ pc \in {"sum", "summed"} => sumpows[0] = 1

C8_Witness ==
  /\ pc = "sum" /\ ii = 2 /\ jj = 1 /\ kk = 0 /\ numminifft = 1
  /\ HarmTarget(ii, jj, kk) = 1

\* C9: for a power-of-two numminifft (and valid norm, harmsum, numcands) the
\* Nyquist slot spread[ii] stored at lines 70-71, the highest slot of
\* 'spread' the routine touches, lies inside its numspread points.
C9_NyquistSlotInside ==
  (pc = "corr" /\ ValidArgs(numminifft, norm, harmsum, numcands)) =>
    (ii = nmini2 /\ ii < numspread)

\* C10: nothing is freed twice, used after it is freed or lost; at the
\* return every buffer of the call has been freed, kern and fullpows exactly
\* when they were allocated, and the kernel is the one buffer still held.
C10_BuffersBalanced ==
  /\ ~heap.leaked /\ ~heap.badfree /\ ~heap.uaf
  /\ pc = "done" =>
       /\ heap.st["spread"] = "freed" /\ heap.st["sumpows"] = "freed"
       /\ heap.st["fullpows"] = (IF harmsum > 1 THEN "freed" ELSE "none")
       /\ heap.st["kern"] = (IF rebuilt THEN "freed" ELSE "none")
       /\ heap.st["kernel"] = "live"
  /\ (pc = "idle" /\ called) =>
       /\ heap.st["kernel"] = "live"
       /\ \A b \in Locals : heap.st[b] = "none"

C10_Witness ==
  pc = "done" /\ called /\ rebuilt /\ harmsum > 1 /\ old_numminifft = 4

====
